---- MODULE Spec2Model ----
(***************************************************************************)
(* Model of apps/data_explorer/loader.py: the AutoZip archive reader, the  *)
(* record parser parse, the per-archive assembler load_zip and the         *)
(* directory scan load_datasets.                                           *)
(*                                                                         *)
(* A Python str is a sequence of one-character strings, so that `in`,      *)
(* str.split, str.endswith, re.search and sorted() are computed the way    *)
(* the interpreter computes them.  A JSON value is a record                *)
(* [kind, val]: kind "str" (val = the characters), "num" (val = the digits *)
(* of the literal) or "list" (val = the elements, one-character strings).  *)
(* A dict is a sequence of [key, value] fields in insertion order.         *)
(***************************************************************************)
EXTENDS Integers, Sequences, FiniteSets, TLC

VARIABLES pc, files, file_i, datasets, returned, exc, zip_inst, handles,
          parsed_list, raw_chat, parsed, az_last, az_log

vars == <<pc, files, file_i, datasets, returned, exc, zip_inst, handles,
          parsed_list, raw_chat, parsed, az_last, az_log>>

-----------------------------------------------------------------------------
(* Bounds of the model.                                                    *)

\* most message-like fields of one raw record given to parse
MaxMsgFields == 2
\* most archive entries over all the archives of one directory scan
MaxEntries == 3
\* most archives found by one directory scan
MaxFiles == 2

-----------------------------------------------------------------------------
(* Python str operations.                                                  *)

\* s[i : i + len(p)] == p, 1-based
MatchesAt(s, p, i) ==
    /\ i >= 1
    /\ i + Len(p) - 1 <= Len(s)
    /\ SubSeq(s, i, i + Len(p) - 1) = p

\* p in s, for two strings
Contains(s, p) == \E i \in 1..(Len(s) + 1) : MatchesAt(s, p, i)

\* s.endswith(suffix)
EndsWith(s, suffix) ==
    /\ Len(suffix) <= Len(s)
    /\ SubSeq(s, Len(s) - Len(suffix) + 1, Len(s)) = suffix

\* s.find(p), 1-based, 0 when absent
Find(s, p) ==
    IF Contains(s, p)
    THEN CHOOSE i \in 1..(Len(s) + 1) :
             /\ MatchesAt(s, p, i)
             /\ \A j \in 1..(i - 1) : ~MatchesAt(s, p, j)
    ELSE 0

RECURSIVE Split(_, _)
\* s.split(sep): the list of the pieces between the occurrences of sep
Split(s, sep) ==
    LET i == Find(s, sep)
    IN  IF i = 0
        THEN <<s>>
        ELSE <<SubSeq(s, 1, i - 1)>> \o Split(SubSeq(s, i + Len(sep), Len(s)), sep)

Digits == <<"0", "1", "2", "3", "4", "5", "6", "7", "8", "9">>

IsDigit(c) == \E d \in 1..10 : Digits[d] = c

DigitValue(c) == (CHOOSE d \in 1..10 : Digits[d] = c) - 1

RECURSIVE ToInt(_)
\* int(ds) for a non-empty string of decimal digits
ToInt(ds) ==
    IF Len(ds) = 0
    THEN 0
    ELSE 10 * ToInt(SubSeq(ds, 1, Len(ds) - 1)) + DigitValue(ds[Len(ds)])

\* code points of the characters that occur in role names (sorted() compares
\* strings code point by code point)
CodePoint(c) ==
    CASE c = "." -> 46
      [] c = "A" -> 65
      [] c = "X" -> 88
      [] c = "Y" -> 89
      [] c = "Z" -> 90
      [] c = "_" -> 95
      [] c = "a" -> 97
      [] c = "b" -> 98

RECURSIVE StrLess(_, _)
\* s < t for two strings
StrLess(s, t) ==
    IF Len(t) = 0 THEN FALSE
    ELSE IF Len(s) = 0 THEN TRUE
    ELSE IF s[1] # t[1] THEN CodePoint(s[1]) < CodePoint(t[1])
    ELSE StrLess(Tail(s), Tail(t))

-----------------------------------------------------------------------------
(* JSON values and dicts.                                                  *)

Str(s) == [kind |-> "str", val |-> s]
Num(ds) == [kind |-> "num", val |-> ds]
List(l) == [kind |-> "list", val |-> l]

\* key in d
HasKey(d, k) == \E i \in DOMAIN d : d[i].key = k

\* d[key], for a key of d
Get(d, k) == d[CHOOSE i \in DOMAIN d : d[i].key = k].value

-----------------------------------------------------------------------------
(* String literals of the source.                                          *)

RoleTypeDot == <<"_", "R", "o", "l", "e", "T", "y", "p", "e", ".">>
ASSISTANT_MARKER == RoleTypeDot \o <<"A", "S", "S", "I", "S", "T", "A", "N", "T">>
USER_MARKER == RoleTypeDot \o <<"U", "S", "E", "R">>
MESSAGE_PREFIX == <<"m", "e", "s", "s", "a", "g", "e", "_">>
K_role_1 == <<"r", "o", "l", "e", "_", "1">>
K_role_2 == <<"r", "o", "l", "e", "_", "2">>
K_original_task == <<"o", "r", "i", "g", "i", "n", "a", "l", "_", "t", "a", "s", "k">>
K_specified_task == <<"s", "p", "e", "c", "i", "f", "i", "e", "d", "_", "t", "a", "s", "k">>
JSON_EXT == <<".", "j", "s", "o", "n">>
ZIP_EXT == <<".", "z", "i", "p">>

-----------------------------------------------------------------------------
(* Results of a call: a returned value, None, or a raised exception.       *)

None == [kind |-> "none"]
Ok(v) == [kind |-> "ok", val |-> v]
Raise(e) == [kind |-> "raise", exc |-> e]

\* d[k]: KeyError for a key d does not have
Subscript(d, k) == IF HasKey(d, k) THEN Ok(Get(d, k)) ELSE Raise("KeyError")

-----------------------------------------------------------------------------
(* parse                                                                   *)

\* `marker not in role`, role.split(marker), the two length checks, and the
\* piece before the first marker.  A number is not iterable (TypeError); a
\* list is searched for an element equal to the marker and has no split.
ExtractRoleNoEmptyCheck(role, marker) ==
    CASE role.kind = "num" -> Raise("TypeError")
      [] role.kind = "list" ->
            IF \E i \in DOMAIN role.val : <<role.val[i]>> = marker
            THEN Raise("AttributeError")
            ELSE None
      [] role.kind = "str" ->
            IF ~Contains(role.val, marker)
            THEN None
            ELSE LET pieces == Split(role.val, marker)
                 IN  IF Len(pieces) < 1 THEN None ELSE Ok(pieces[1])

ExtractRole(role, marker) ==
    CASE role.kind = "num" -> Raise("TypeError")
      [] role.kind = "list" ->
            IF \E i \in DOMAIN role.val : <<role.val[i]>> = marker
            THEN Raise("AttributeError")
            ELSE None
      [] role.kind = "str" ->
            IF ~Contains(role.val, marker)
            THEN None
            ELSE LET pieces == Split(role.val, marker)
                 IN  IF Len(pieces) < 1 THEN None
                     ELSE IF Len(pieces[1]) <= 0 THEN None
                     ELSE Ok(pieces[1])

\* len(task) <= 0: a number has no len (TypeError)
CheckTask(task) ==
    IF task.kind = "num" THEN Raise("TypeError")
    ELSE IF Len(task.val) <= 0 THEN None
    ELSE Ok(task)

RECURSIVE DigitRun(_, _)
\* the longest run of digits of s that starts at position i ([0-9]+ is greedy)
DigitRun(s, i) ==
    IF i <= Len(s) /\ IsDigit(s[i]) THEN <<s[i]>> \o DigitRun(s, i + 1) ELSE <<>>

\* where re.search("message_(?P<number>[0-9]+)", key) matches: the leftmost
\* position at which "message_" and at least one digit follow; 0 for no match
MessageMatchStart(key) ==
    LET hit(i) == /\ MatchesAt(key, MESSAGE_PREFIX, i)
                  /\ i + Len(MESSAGE_PREFIX) <= Len(key)
                  /\ IsDigit(key[i + Len(MESSAGE_PREFIX)])
    IN  IF \E i \in 1..Len(key) : hit(i)
        THEN CHOOSE i \in 1..Len(key) : hit(i) /\ \A j \in 1..(i - 1) : ~hit(j)
        ELSE 0

\* int(match.group("number")), for a key the pattern matches
MessageNumber(key) ==
    ToInt(DigitRun(key, MessageMatchStart(key) + Len(MESSAGE_PREFIX)))

\* messages[number] = value
SetItem(m, k, v) == [x \in DOMAIN m \cup {k} |-> IF x = k THEN v ELSE m[x]]

RECURSIVE Messages(_)
\* the loop over the keys of raw_chat, in the dict's order
Messages(raw) ==
    IF Len(raw) = 0 THEN <<>>
    ELSE LET sofar == Messages(SubSeq(raw, 1, Len(raw) - 1))
             f == raw[Len(raw)]
         IN  IF MessageMatchStart(f.key) # 0
             THEN SetItem(sofar, MessageNumber(f.key), f.value)
             ELSE sofar

parse(raw) ==
    IF ~HasKey(raw, K_role_1) THEN None
    ELSE
    LET a == ExtractRole(Get(raw, K_role_1), ASSISTANT_MARKER) IN
    IF a.kind # "ok" THEN a
    ELSE
    LET r2 == Subscript(raw, K_role_2) IN
    IF r2.kind # "ok" THEN r2
    ELSE
    LET u == ExtractRole(r2.val, USER_MARKER) IN
    IF u.kind # "ok" THEN u
    ELSE
    LET o == Subscript(raw, K_original_task) IN
    IF o.kind # "ok" THEN o
    ELSE
    LET ot == CheckTask(o.val) IN
    IF ot.kind # "ok" THEN ot
    ELSE
    LET s == Subscript(raw, K_specified_task) IN
    IF s.kind # "ok" THEN s
    ELSE
    LET st == CheckTask(s.val) IN
    IF st.kind # "ok" THEN st
    ELSE Ok([assistant_role |-> a.val,
             user_role |-> u.val,
             original_task |-> ot.val,
             specified_task |-> st.val,
             messages |-> Messages(raw)])

-----------------------------------------------------------------------------
(* Raw records given to parse.                                             *)

RECURSIVE DistinctSeqs(_, _)
\* the sequences of at most n distinct elements of S
DistinctSeqs(S, n) ==
    IF n = 0 THEN {<<>>}
    ELSE LET shorter == DistinctSeqs(S, n - 1)
         IN  shorter \cup
             {Append(q, x) : <<q, x>> \in
                  {y \in shorter \X S : \A i \in DOMAIN y[1] : y[1][i] # y[2]}}

Field(k, v) == [key |-> k, value |-> v]

\* no field, or one field named k with one of the values
OptionalField(k, values) == {<<>>} \cup {<<Field(k, v)>> : v \in values}

Role1Values ==
    { Str(<<"X">> \o ASSISTANT_MARKER),
      Str(ASSISTANT_MARKER),
      Str(<<"X">>),
      Str(<<"X">> \o USER_MARKER),
      Num(<<"5">>) }

Role2Values ==
    { Str(<<"Y">> \o USER_MARKER \o <<"b">> \o USER_MARKER),
      Str(USER_MARKER),
      Str(<<>>),
      Str(<<"Y">> \o ASSISTANT_MARKER),
      List(<<"Y">>) }

OriginalTaskValues == { Str(<<"T", "1">>), Str(<<>>), Num(<<"5">>), List(<<"T">>) }

SpecifiedTaskValues == { Str(<<"S", "1">>), Str(<<>>), List(<<>>) }

\* fields whose names are, contain, or resemble message_<integer>
MessageFields ==
    { Field(MESSAGE_PREFIX \o <<"0">>, Str(<<"h", "i">>)),
      Field(MESSAGE_PREFIX \o <<"1">>, Str(<<"y", "o">>)),
      Field(MESSAGE_PREFIX \o <<"7">>, Num(<<"7">>)),
      Field(MESSAGE_PREFIX \o <<"0", "1">>, Str(<<"z">>)),
      Field(<<"x">> \o MESSAGE_PREFIX \o <<"1">>, Str(<<"x">>)),
      Field(MESSAGE_PREFIX \o <<"7", "b">>, Str(<<"b">>)),
      Field(MESSAGE_PREFIX, Str(<<"e">>)),
      Field(<<"n", "o", "t", "e">>, Str(<<"n">>)) }

\* raw is one of the raw records given to parse: each required field absent
\* or with one of its values, then at most MaxMsgFields of the message fields
IsRawRecord(raw) ==
    \E r1 \in OptionalField(K_role_1, Role1Values),
       r2 \in OptionalField(K_role_2, Role2Values),
       ot \in OptionalField(K_original_task, OriginalTaskValues),
       st \in OptionalField(K_specified_task, SpecifiedTaskValues),
       ms \in DistinctSeqs(MessageFields, MaxMsgFields) :
        raw = r1 \o r2 \o ot \o st \o ms

-----------------------------------------------------------------------------
(* Archives.  An archive is [path, entries]; an entry is [filename,        *)
(* content], its content being what json.loads(f.read().decode("utf-8"))   *)
(* makes of its bytes: Ok(raw record) or the exception raised.             *)

Entry(name, content) == [filename |-> name, content |-> content]

JsonName == <<"c">> \o JSON_EXT
TextName == <<"c", ".", "t", "x", "t">>

Record(role_1, role_2, tasks, msgs) ==
    <<Field(K_role_1, Str(role_1)), Field(K_role_2, Str(role_2))>> \o tasks \o msgs

Hi == <<Field(MESSAGE_PREFIX \o <<"0">>, Str(<<"h", "i">>))>>
T1 == Field(K_original_task, Str(<<"T", "1">>))
T2 == Field(K_original_task, Str(<<"T", "2">>))
S1 == Field(K_specified_task, Str(<<"S", "1">>))
S2 == Field(K_specified_task, Str(<<"S", "2">>))
XA == <<"X">> \o ASSISTANT_MARKER
YU == <<"Y">> \o USER_MARKER

\* the two entries of the specification's scenario, then: other roles and
\* task; no original_task; no role_1; a list as original_task; bytes that
\* do not decode; an entry that is not a .json file
EntryPool ==
    { Entry(JsonName, Ok(Record(XA, YU, <<T1, S1>>, Hi))),
      Entry(JsonName, Ok(Record(XA, YU, <<T1, S2>>, Hi))),
      Entry(JsonName, Ok(Record(<<"A", "b">> \o ASSISTANT_MARKER,
                                <<"Z">> \o USER_MARKER, <<T1, S1>>, <<>>))),
      Entry(JsonName, Ok(Record(XA, YU, <<T2, S1>>, <<>>))),
      Entry(JsonName, Ok(Record(XA, YU, <<S1>>, Hi))),
      Entry(JsonName, Ok(<<Field(K_role_2, Str(YU)), T1, S1>>)),
      Entry(JsonName, Ok(Record(XA, YU,
                                <<Field(K_original_task, List(<<"T">>)), S1>>, Hi))),
      Entry(JsonName, Raise("JSONDecodeError")),
      Entry(TextName, Ok(Record(<<"a">> \o ASSISTANT_MARKER, YU, <<T1, S1>>, Hi))) }

\* the entries of the archives of a scan of several archives
ScanEntryPool ==
    { Entry(JsonName, Ok(Record(XA, YU, <<T1, S1>>, Hi))),
      Entry(JsonName, Ok(Record(<<"A", "b">> \o ASSISTANT_MARKER,
                                <<"Z">> \o USER_MARKER, <<T1, S1>>, <<>>))),
      Entry(JsonName, Ok(Record(XA, YU, <<S1>>, Hi))),
      Entry(JsonName, Raise("JSONDecodeError")) }

\* the i-th path that glob gives: datasets/a.zip, datasets/b.zip, ...
PathOf(i) ==
    <<"d", "a", "t", "a", "s", "e", "t", "s", "/">>
        \o <<(<<"a", "b", "A", "Z">>)[i]>> \o ZIP_EXT

RECURSIVE Sum(_, _)
\* lens[1] + ... + lens[i]
Sum(lens, i) == IF i = 0 THEN 0 ELSE Sum(lens, i - 1) + lens[i]

\* archives of lens[1], lens[2], ... entries, cut in this order out of es
ArchivesOf(lens, es) ==
    [i \in DOMAIN lens |->
        [path |-> PathOf(i),
         entries |-> SubSeq(es, Sum(lens, i - 1) + 1, Sum(lens, i))]]

\* what glob finds: k archives with at most MaxEntries entries of pool in all
IsGlobResult(fs, k, pool) ==
    \E lens \in [1..k -> 0..MaxEntries] :
        /\ Sum(lens, k) <= MaxEntries
        /\ \E es \in [1..Sum(lens, k) -> pool] : fs = ArchivesOf(lens, es)

-----------------------------------------------------------------------------
(* AutoZip.  The object is [fl, index]; index = -1 before __iter__ has     *)
(* set the attribute.  The ZipFile it opens is tracked in handles.         *)

\* fl of __init__: the entries whose file name ends with ext
AutoZip_init(archive, ext) ==
    [fl |-> SelectSeq(archive.entries, LAMBDA e : EndsWith(e.filename, ext)),
     index |-> -1]

AutoZip_iterKeepsCursor(self) ==
    [self EXCEPT !.index = IF self.index = -1 THEN 0 ELSE self.index]

AutoZip_iter(self) == [self EXCEPT !.index = 0]

AutoZip_len(self) == Len(self.fl)

Stop == [kind |-> "stop"]

AutoZip_nextSkipsBadEntry(self) ==
    IF self.index = -1
    THEN [result |-> Raise("AttributeError"), self |-> self]
    ELSE IF self.index >= Len(self.fl)
    THEN [result |-> Stop, self |-> self]
    ELSE LET raw_json == self.fl[self.index + 1].content
         IN  IF raw_json.kind = "raise"
             THEN [result |-> Stop, self |-> self]
             ELSE [result |-> raw_json,
                   self |-> [self EXCEPT !.index = self.index + 1]]

\* __next__: the value returned or the exception raised, and the object after
AutoZip_next(self) ==
    IF self.index = -1
    THEN [result |-> Raise("AttributeError"), self |-> self]
    ELSE IF self.index >= Len(self.fl)
    THEN [result |-> Stop, self |-> self]
    ELSE LET raw_json == self.fl[self.index + 1].content
         IN  IF raw_json.kind = "raise"
             THEN [result |-> raw_json, self |-> self]
             ELSE [result |-> raw_json,
                   self |-> [self EXCEPT !.index = self.index + 1]]

-----------------------------------------------------------------------------
(* State that a specification does not use.                                *)

NoValue == [kind |-> "unset"]
NoZip == [fl |-> <<>>, index |-> -1]
NoCall == [op |-> "none", result |-> NoValue, index |-> -1]

-----------------------------------------------------------------------------
(* parse applied to one raw record.                                        *)

InitParse ==
    /\ pc = "parse"
    /\ IsRawRecord(raw_chat)
    /\ parsed = NoValue
    /\ files = <<>>
    /\ file_i = 0
    /\ datasets = <<>>
    /\ returned = NoValue
    /\ exc = NoValue
    /\ zip_inst = NoZip
    /\ handles = <<>>
    /\ parsed_list = <<>>
    /\ az_last = NoCall
    /\ az_log = <<>>

ParseCall ==
    /\ pc = "parse"
    /\ parsed' = parse(raw_chat)
    /\ pc' = "parsed"
    /\ UNCHANGED <<files, file_i, datasets, returned, exc, zip_inst, handles,
                   parsed_list, raw_chat, az_last, az_log>>

NextParse == ParseCall

SpecParse == InitParse /\ [][NextParse]_vars

-----------------------------------------------------------------------------
(* Claims about parse (SpecParse).                                         *)

RequiredKeys == {K_role_1, K_role_2, K_original_task, K_specified_task}

\* a string that does not contain the marker, or has nothing before it
BadRoleString(d, k, marker) ==
    /\ HasKey(d, k)
    /\ Get(d, k).kind = "str"
    /\ \/ ~Contains(Get(d, k).val, marker)
       \/ MatchesAt(Get(d, k).val, marker, 1)

MissingOrEmpty(d, k) == ~HasKey(d, k) \/ Get(d, k).val = <<>>

FailsValidation(raw) ==
    \/ ~HasKey(raw, K_role_1)
    \/ ~HasKey(raw, K_role_2)
    \/ BadRoleString(raw, K_role_1, ASSISTANT_MARKER)
    \/ BadRoleString(raw, K_role_2, USER_MARKER)
    \/ MissingOrEmpty(raw, K_original_task)
    \/ MissingOrEmpty(raw, K_specified_task)

\* C1: a raw record that misses role_1 or role_2, whose role_1 (role_2) lacks
\* the assistant (user) marker or has nothing before it, or whose
\* original_task or specified_task is missing or empty, makes parse return
\* None, without an exception.
C1_InvalidRecordReturnsNone ==
    (pc = "parsed" /\ FailsValidation(raw_chat)) => parsed = None

\* the name message_<integer>, whole
IsMessageName(key) ==
    /\ Len(key) > Len(MESSAGE_PREFIX)
    /\ MatchesAt(key, MESSAGE_PREFIX, 1)
    /\ \A i \in (Len(MESSAGE_PREFIX) + 1)..Len(key) : IsDigit(key[i])

NameNumber(key) == ToInt(SubSeq(key, Len(MESSAGE_PREFIX) + 1, Len(key)))

\* the name is message_n with n written as Python writes it
IsPlainMessageName(key) ==
    /\ IsMessageName(key)
    /\ Len(key) = Len(MESSAGE_PREFIX) + 1 \/ key[Len(MESSAGE_PREFIX) + 1] # "0"

\* C2: the messages of the record parse returns have exactly the keys n for
\* which the raw record has a field named message_n, each with that field's
\* value, whatever the order of the fields; no other field adds or
\* overwrites an entry.
C2_MessagesAreTheMessageFields ==
    (pc = "parsed" /\ parsed.kind = "ok") =>
        LET m == parsed.val.messages
            named == {i \in DOMAIN raw_chat : IsMessageName(raw_chat[i].key)}
        IN  /\ DOMAIN m = {NameNumber(raw_chat[i].key) : i \in named}
            /\ \A i \in named :
                   IsPlainMessageName(raw_chat[i].key) =>
                       m[NameNumber(raw_chat[i].key)] = raw_chat[i].value

\* C6: a record returned by parse has a non-empty assistant_role, user_role,
\* original_task and specified_task, and comes from a raw record in which
\* every required field is present and non-empty.
C6_NormalizedRecordIsComplete ==
    (pc = "parsed" /\ parsed.kind = "ok") =>
        /\ {"assistant_role", "user_role", "original_task", "specified_task"}
               \subseteq DOMAIN parsed.val
        /\ Len(parsed.val.assistant_role) > 0
        /\ Len(parsed.val.user_role) > 0
        /\ Len(parsed.val.original_task.val) > 0
        /\ Len(parsed.val.specified_task.val) > 0
        /\ \A k \in RequiredKeys : ~MissingOrEmpty(raw_chat, k)

C6_Witness ==
    /\ pc = "parsed"
    /\ parsed.kind = "ok"
    /\ parsed.val.original_task.kind = "list"
    /\ DOMAIN parsed.val.messages # {}

-----------------------------------------------------------------------------
(* AutoZip driven by an arbitrary caller (SpecAutoZip).  az_last is the    *)
(* last call: its name, its result and the cursor before it; az_log is the *)
(* values __next__ has returned since the last __iter__.                   *)

InitAutoZip ==
    /\ pc = "autozip"
    /\ IsGlobResult(files, 1, EntryPool)
    /\ zip_inst = AutoZip_init(files[1], JSON_EXT)
    /\ handles = <<"open">>
    /\ az_last = NoCall
    /\ az_log = <<>>
    /\ file_i = 1
    /\ datasets = <<>>
    /\ returned = NoValue
    /\ exc = NoValue
    /\ parsed_list = <<>>
    /\ raw_chat = <<>>
    /\ parsed = NoValue

CallIter ==
    /\ pc = "autozip"
    /\ zip_inst' = AutoZip_iter(zip_inst)
    /\ az_last' = [op |-> "iter", result |-> NoValue, index |-> zip_inst.index]
    /\ az_log' = <<>>
    /\ UNCHANGED <<pc, files, file_i, datasets, returned, exc, handles,
                   parsed_list, raw_chat, parsed>>

CallNext ==
    /\ pc = "autozip"
    /\ LET r == AutoZip_next(zip_inst)
       IN  /\ zip_inst' = r.self
           /\ az_last' = [op |-> "next", result |-> r.result, index |-> zip_inst.index]
           /\ az_log' = IF r.result.kind = "ok"
                        THEN Append(az_log, r.result.val)
                        ELSE az_log
    /\ UNCHANGED <<pc, files, file_i, datasets, returned, exc, handles,
                   parsed_list, raw_chat, parsed>>

CallLen ==
    /\ pc = "autozip"
    /\ az_last' = [op |-> "len", result |-> Ok(AutoZip_len(zip_inst)),
                   index |-> zip_inst.index]
    /\ UNCHANGED <<pc, files, file_i, datasets, returned, exc, zip_inst, handles,
                   parsed_list, raw_chat, parsed, az_log>>

NextAutoZip == CallIter \/ CallNext \/ CallLen

SpecAutoZip == InitAutoZip /\ [][NextAutoZip]_vars

\* the entries of the archive that match the extension, in listing order
MatchingEntries(archive) ==
    SelectSeq(archive.entries, LAMBDA e : EndsWith(e.filename, JSON_EXT))

\* C8: after __iter__, the values __next__ returns are the decoded matching
\* entries in archive listing order, one per entry, from the first one again
\* after every __iter__; __next__ signals the end exactly when all n have been
\* returned; __len__ returns n and leaves the cursor alone.
C8_AutoZipIteratesInListingOrder ==
    pc = "autozip" =>
        LET matching == MatchingEntries(files[1])
            n == Len(matching)
        IN  /\ Len(az_log) <= n
            /\ \A i \in DOMAIN az_log : matching[i].content = Ok(az_log[i])
            /\ (az_last.op = "next" /\ az_last.index # -1) =>
                   CASE az_last.result.kind = "ok" ->
                            /\ az_log # <<>>
                            /\ az_last.result.val = az_log[Len(az_log)]
                     [] az_last.result.kind = "stop" -> Len(az_log) = n
                     [] az_last.result.kind = "raise" ->
                            /\ Len(az_log) < n
                            /\ matching[Len(az_log) + 1].content = az_last.result
            /\ az_last.op = "len" =>
                   /\ az_last.result = Ok(n)
                   /\ zip_inst.index = az_last.index
            /\ az_last.op = "iter" => zip_inst.index = 0

C8_Witness ==
    /\ pc = "autozip"
    /\ az_last.op = "next"
    /\ az_last.result.kind = "stop"
    /\ Len(az_log) >= 2
    /\ Len(files[1].entries) > Len(az_log)

-----------------------------------------------------------------------------
(* load_zip: the assembly of one archive's parsed records.                 *)

\* the positions of character c in string s
Positions(s, c) == {i \in DOMAIN s : s[i] = c}

Last(S) == CHOOSE i \in S : \A j \in S : j <= i

\* os.path.basename(path)
Basename(path) ==
    IF Positions(path, "/") = {} THEN path
    ELSE SubSeq(path, Last(Positions(path, "/")) + 1, Len(path))

\* os.path.splitext(name)[0]: name up to its last dot, a leading dot apart
SplitextRoot(name) ==
    LET dots == Positions(name, ".") \ {1}
    IN  IF dots = {} THEN name ELSE SubSeq(name, 1, Last(dots) - 1)

DatasetName(file_name) == SplitextRoot(Basename(file_name))

RECURSIVE SortedDescending(_)
SortedDescending(S) ==
    IF S = {} THEN <<>>
    ELSE LET m == CHOOSE x \in S : \A y \in S : y = x \/ StrLess(y, x)
         IN  <<m>> \o SortedDescending(S \ {m})

RECURSIVE Sorted(_)
\* list(sorted(S)) for a set of strings
Sorted(S) ==
    IF S = {} THEN <<>>
    ELSE LET m == CHOOSE x \in S : \A y \in S : y = x \/ StrLess(x, y)
         IN  <<m>> \o Sorted(S \ {m})

\* the two sets that the first loop over parsed_list fills
AssistantRoles(pl) == {pl[i].assistant_role : i \in DOMAIN pl}
UserRoles(pl) == {pl[i].user_role : i \in DOMAIN pl}

NewItemKeepsTask(p) ==
    [k \in DOMAIN p \ {"assistant_role", "user_role"} |-> p[k]]

\* new_item: the fields of parsed other than the three key fields
NewItem(p) ==
    [k \in DOMAIN p \ {"assistant_role", "user_role", "original_task"} |-> p[k]]

RECURSIVE MatrixFirstWins(_)
MatrixFirstWins(pl) ==
    IF Len(pl) = 0 THEN <<>>
    ELSE LET matrix == MatrixFirstWins(SubSeq(pl, 1, Len(pl) - 1))
             p == pl[Len(pl)]
             key == <<p.assistant_role, p.user_role>>
         IN  IF key \in DOMAIN matrix
             THEN IF p.original_task \in DOMAIN matrix[key]
                  THEN matrix
                  ELSE [matrix EXCEPT
                            ![key] = SetItem(matrix[key], p.original_task, NewItem(p))]
             ELSE SetItem(matrix, key, SetItem(<<>>, p.original_task, NewItem(p)))

RECURSIVE Matrix(_)
\* the second loop over parsed_list, in order
Matrix(pl) ==
    IF Len(pl) = 0 THEN <<>>
    ELSE LET matrix == Matrix(SubSeq(pl, 1, Len(pl) - 1))
             p == pl[Len(pl)]
             key == <<p.assistant_role, p.user_role>>
         IN  IF key \in DOMAIN matrix
             THEN [matrix EXCEPT
                       ![key] = SetItem(matrix[key], p.original_task, NewItem(p))]
             ELSE SetItem(matrix, key, SetItem(<<>>, p.original_task, NewItem(p)))

\* a list is unhashable: TypeError where original_task is made a dict key
Hashable(v) == v.kind # "list"

\* lines 125-150: the archive result, or the exception of the second loop
Assemble(pl) ==
    IF \E i \in DOMAIN pl : ~Hashable(pl[i].original_task)
    THEN Raise("TypeError")
    ELSE Ok([assistant_roles |-> Sorted(AssistantRoles(pl)),
             user_roles |-> Sorted(UserRoles(pl)),
             matrix |-> Matrix(pl)])

-----------------------------------------------------------------------------
(* load_datasets and load_zip as steps (Spec).  pc: "scan" at the head of  *)
(* the loop over files, "read" in the loop over the archive's entries,     *)
(* "assemble" after it, "returned" and "raised" once load_datasets is      *)
(* over.  handles[i] is the state of the ZipFile of files[i].  The code    *)
(* never closes it: when load_zip is left, whether the runtime has         *)
(* finalised the unreferenced object by then is not decided by the code.   *)

Init ==
    /\ pc = "scan"
    /\ \/ IsGlobResult(files, 1, EntryPool)
       \/ \E k \in 0..MaxFiles : IsGlobResult(files, k, ScanEntryPool)
    /\ file_i = 1
    /\ datasets = <<>>
    /\ returned = NoValue
    /\ exc = NoValue
    /\ zip_inst = NoZip
    /\ handles = [i \in DOMAIN files |-> "unopened"]
    /\ parsed_list = <<>>
    /\ raw_chat = <<>>
    /\ parsed = NoValue
    /\ az_last = NoCall
    /\ az_log = <<>>

\* load_datasets takes the next file and load_zip opens and iterates it:
\* iter(zip_inst) sets the cursor, and so does tqdm when it iterates in turn
LoadZipOpen ==
    /\ pc = "scan"
    /\ file_i <= Len(files)
    /\ zip_inst' = AutoZip_iter(AutoZip_iter(AutoZip_init(files[file_i], JSON_EXT)))
    /\ handles' = [handles EXCEPT ![file_i] = "open"]
    /\ parsed_list' = <<>>
    /\ pc' = "read"
    /\ UNCHANGED <<files, file_i, datasets, returned, exc, raw_chat, parsed,
                   az_last, az_log>>

\* one turn of the loop: the next raw record is parsed and kept or skipped
LoadZipRecord ==
    /\ pc = "read"
    /\ LET r == AutoZip_next(zip_inst)
       IN  /\ r.result.kind = "ok"
           /\ parse(r.result.val).kind # "raise"
           /\ zip_inst' = r.self
           /\ raw_chat' = r.result.val
           /\ parsed' = parse(r.result.val)
           /\ parsed_list' = IF parsed'.kind = "none"
                             THEN parsed_list
                             ELSE Append(parsed_list, parsed'.val)
    /\ UNCHANGED <<pc, files, file_i, datasets, returned, exc, handles,
                   az_last, az_log>>

\* __next__ or parse raises: nothing catches it up to load_datasets' caller
LoadZipRaise ==
    /\ pc = "read"
    /\ LET r == AutoZip_next(zip_inst)
       IN  /\ r.result.kind \in {"ok", "raise"}
           /\ zip_inst' = r.self
           /\ IF r.result.kind = "raise"
              THEN /\ exc' = [type |-> r.result.exc, in |-> "__next__"]
                   /\ UNCHANGED <<raw_chat, parsed>>
              ELSE /\ parse(r.result.val).kind = "raise"
                   /\ raw_chat' = r.result.val
                   /\ exc' = [type |-> parse(r.result.val).exc, in |-> "parse"]
                   /\ UNCHANGED parsed
    /\ \E h \in {"open", "closed"} : handles' = [handles EXCEPT ![file_i] = h]
    /\ pc' = "raised"
    /\ UNCHANGED <<files, file_i, datasets, returned, parsed_list, az_last, az_log>>

\* StopIteration ends the loop
LoadZipStop ==
    /\ pc = "read"
    /\ AutoZip_next(zip_inst).result.kind = "stop"
    /\ pc' = "assemble"
    /\ UNCHANGED <<files, file_i, datasets, returned, exc, zip_inst, handles,
                   parsed_list, raw_chat, parsed, az_last, az_log>>

\* load_zip returns the archive result and load_datasets stores it
LoadZipReturn ==
    /\ pc = "assemble"
    /\ Assemble(parsed_list).kind = "ok"
    /\ datasets' = SetItem(datasets, DatasetName(files[file_i].path),
                           Assemble(parsed_list).val)
    /\ \E h \in {"open", "closed"} : handles' = [handles EXCEPT ![file_i] = h]
    /\ file_i' = file_i + 1
    /\ pc' = "scan"
    /\ UNCHANGED <<files, returned, exc, zip_inst, parsed_list, raw_chat, parsed,
                   az_last, az_log>>

\* the second loop raises
LoadZipAssembleRaise ==
    /\ pc = "assemble"
    /\ Assemble(parsed_list).kind = "raise"
    /\ exc' = [type |-> Assemble(parsed_list).exc, in |-> "load_zip"]
    /\ \E h \in {"open", "closed"} : handles' = [handles EXCEPT ![file_i] = h]
    /\ pc' = "raised"
    /\ UNCHANGED <<files, file_i, datasets, returned, zip_inst, parsed_list,
                   raw_chat, parsed, az_last, az_log>>

\* the loop over files is over
LoadDatasetsReturn ==
    /\ pc = "scan"
    /\ file_i > Len(files)
    /\ returned' = Ok(datasets)
    /\ pc' = "returned"
    /\ UNCHANGED <<files, file_i, datasets, exc, zip_inst, handles, parsed_list,
                   raw_chat, parsed, az_last, az_log>>

Next ==
    \/ LoadZipOpen
    \/ LoadZipRecord
    \/ LoadZipRaise
    \/ LoadZipStop
    \/ LoadZipReturn
    \/ LoadZipAssembleRaise
    \/ LoadDatasetsReturn

Spec == Init /\ [][Next]_vars

-----------------------------------------------------------------------------
(* Claims about load_zip and load_datasets (Spec).                         *)

\* load_zip has just returned for files[file_i - 1]: parsed_list is still
\* the list it assembled
JustLoaded == pc \in {"scan", "returned"} /\ file_i > 1

LoadedResult == datasets[DatasetName(files[file_i - 1].path)]

RECURSIVE ParsedValid(_)
\* the records parse returns for the entries that pass the validation
ParsedValid(entries) ==
    IF Len(entries) = 0 THEN <<>>
    ELSE LET e == entries[Len(entries)]
             before == ParsedValid(SubSeq(entries, 1, Len(entries) - 1))
         IN  IF FailsValidation(e.content.val)
             THEN before
             ELSE Append(before, parse(e.content.val).val)

\* C3: a raw record that fails a validation check is left out silently:
\* load_zip raises nothing for it, and returns what it returns for the
\* archive without such entries (an empty result when the only entry misses
\* original_task).
C3_InvalidRecordsAreExcluded ==
    /\ (pc = "raised" /\ exc.in = "parse") => ~FailsValidation(raw_chat)
    /\ JustLoaded =>
           LoadedResult =
               Assemble(ParsedValid(MatchingEntries(files[file_i - 1]))).val

SameTriple(p, q) ==
    /\ p.assistant_role = q.assistant_role
    /\ p.user_role = q.user_role
    /\ p.original_task = q.original_task

Occurrences(seq, x) == Cardinality({k \in DOMAIN seq : seq[k] = x})

\* C4: matrix[(assistant_role, user_role)][original_task] is the
\* specified_task and messages of the last record of the archive with that
\* triple, and each of its two roles is listed exactly once.
C4_LastWriteWins ==
    JustLoaded =>
        \A i \in DOMAIN parsed_list :
            LET p == parsed_list[i]
                last == Last({j \in DOMAIN parsed_list :
                                  SameTriple(parsed_list[j], p)})
            IN  /\ LoadedResult.matrix[<<p.assistant_role, p.user_role>>]
                                      [p.original_task]
                       = [specified_task |-> parsed_list[last].specified_task,
                          messages |-> parsed_list[last].messages]
                /\ Occurrences(LoadedResult.assistant_roles, p.assistant_role) = 1
                /\ Occurrences(LoadedResult.user_roles, p.user_role) = 1

C4_Witness ==
    /\ JustLoaded
    /\ \E i, j \in DOMAIN parsed_list :
           /\ i < j
           /\ SameTriple(parsed_list[i], parsed_list[j])
           /\ parsed_list[i].specified_task # parsed_list[j].specified_task

StrictlyIncreasing(seq) ==
    \A i \in 1..(Len(seq) - 1) : StrLess(seq[i], seq[i + 1])

\* C5: assistant_roles and user_roles of every archive result are strictly
\* increasing in lexicographic order.
C5_RolesStrictlySorted ==
    \A name \in DOMAIN datasets :
        /\ StrictlyIncreasing(datasets[name].assistant_roles)
        /\ StrictlyIncreasing(datasets[name].user_roles)

C5_Witness ==
    /\ JustLoaded
    /\ Len(parsed_list) >= 3
    /\ Len(LoadedResult.assistant_roles) = 2
    /\ parsed_list[1].assistant_role = LoadedResult.assistant_roles[2]

\* C7: no load_zip ends, by return or by exception, with the archive's
\* handle still open.
C7_HandleClosedWhenLoadEnds ==
    \A i \in DOMAIN handles :
        (i < file_i \/ pc \in {"raised", "returned"}) => handles[i] # "open"

HasBadEntry(archive) ==
    \E i \in DOMAIN MatchingEntries(archive) :
        MatchingEntries(archive)[i].content.kind = "raise"

\* C9: an entry that cannot be decoded ends load_datasets with the
\* exception: nothing is returned, no later archive is opened and no step
\* follows; so a scan that returns has met no such entry.
C9_DecodeFailureAbortsScan ==
    /\ (pc = "raised" /\ exc.in = "__next__") =>
           /\ returned = NoValue
           /\ \A i \in DOMAIN files : i > file_i => handles[i] = "unopened"
           /\ ~ENABLED Next
    /\ pc = "returned" => \A i \in DOMAIN files : ~HasBadEntry(files[i])

C9_Witness ==
    /\ pc = "raised"
    /\ exc.in = "__next__"
    /\ file_i = 2
    /\ DOMAIN datasets # {}
    /\ parsed_list # <<>>

\* C10: in every archive result, the matrix keys are pairs of listed roles,
\* every listed role occurs in a matrix key, no sub-mapping is empty, and
\* every entry has exactly the fields specified_task and messages.
C10_RolesAndMatrixAgree ==
    \A name \in DOMAIN datasets :
        LET res == datasets[name]
            as == {res.assistant_roles[k] : k \in DOMAIN res.assistant_roles}
            us == {res.user_roles[k] : k \in DOMAIN res.user_roles}
        IN  /\ \A key \in DOMAIN res.matrix : key[1] \in as /\ key[2] \in us
            /\ \A a \in as : \E key \in DOMAIN res.matrix : key[1] = a
            /\ \A u \in us : \E key \in DOMAIN res.matrix : key[2] = u
            /\ \A key \in DOMAIN res.matrix :
                   /\ DOMAIN res.matrix[key] # {}
                   /\ \A t \in DOMAIN res.matrix[key] :
                          DOMAIN res.matrix[key][t] = {"specified_task", "messages"}

C10_Witness ==
    /\ JustLoaded
    /\ Cardinality(DOMAIN LoadedResult.matrix) = 2
    /\ \E key \in DOMAIN LoadedResult.matrix :
           Cardinality(DOMAIN LoadedResult.matrix[key]) = 2

====
